---- MODULE Spec2Model ----
(***************************************************************************)
(* Model of coengage/views.py: registration, e-mail OTP verification and   *)
(* OTP resend over the CustomUser table.                                   *)
(*                                                                         *)
(* Time is counted in seconds.  Every call of timezone.now() in a handler  *)
(* is a separate read of the clock; successive reads never go backwards    *)
(* but may differ.                                                         *)
(***************************************************************************)
EXTENDS Integers, Sequences, FiniteSets, Bags, TLC

\* ---------------------------------------------------------------- bounds
MaxTicks == 3          \* the clock stops advancing after this many steps
MaxAttempts == 5       \* otp_attempts is not counted beyond this value
MaxInFlight == 2       \* SpecRace: requests handled at the same time
MaxAnswers == 4        \* SpecRace: requests that reach their user.save()

\* ------------------------------------------------------ program constants
MaxOtpAttempts == 3        \* user.otp_attempts >= 3
LockoutSeconds == 600      \* total_seconds() < 600
OtpLifetimeMinutes == 10   \* timedelta(minutes=10)
HTTP_200_OK == 200
HTTP_400_BAD_REQUEST == 400
HTTP_500_INTERNAL_SERVER_ERROR == 500

OtpLifetime == OtpLifetimeMinutes * 60

\* The clock moves in steps of half a lockout window, so that instants
\* strictly inside, exactly at and beyond the 600 s limits all occur.
Tick == LockoutSeconds \div 2
MaxTime == MaxTicks * Tick

\* None of Python, for the nullable DateTimeField otp_attempts_timestamp.
None == 0 - 1

\* The addresses requests carry; clients register with the first only, so the
\* second is always an address without a row.
Emails == {"a@x.com", "b@x.com"}
Registrants == {"a@x.com"}
\* str(random.randint(100000, 999999)): the two ends of the range.
OtpCodes == {"100000", "999999"}
\* What a client may put in the otp field of a verify-email request.
SubmittedOtps == OtpCodes \cup {"000000"}

VARIABLES
    users,   \* the CustomUser table: email -> row
    now,     \* the clock (seconds)
    last,    \* the last request handled: its inputs, the row it found, its response
    issued   \* per email: the code stored before the last resend and the code it
             \* generated, whether that resend found the row locked out, and the
             \* code of the last email that was delivered

\* State of the other specifications of this module; Spec leaves it alone.
VARIABLES
    fails,     \* SpecGuess: the times of the latest "Invalid OTP" answers
    pending,   \* SpecRace: per request in flight, the row it is about to save
    tally,     \* SpecRace: what the requests completed so far were answered
    accounts,  \* SpecProfile: the id, role and profile columns of the table
    api        \* SpecProfile: the last /users/ request handled

otpVars == <<users, now, last, issued>>
auxVars == <<fails, pending, tally, accounts, api>>
vars == <<users, now, last, issued, fails, pending, tally, accounts, api>>

\* The clock values a handler that starts at t may read next.
ClockReads(t) == {t2 \in {t, t + Tick} : t2 <= MaxTime}

NoRow == [is_verified |-> FALSE, otp |-> "", otp_created_at |-> None,
          otp_expiration |-> None, otp_attempts |-> 0,
          otp_attempts_timestamp |-> None]

Response(status, keys, msg) == [status |-> status, keys |-> keys, msg |-> msg]

\* ------------------------------------------------------ send_email_ses
\* The SES call either returns a MessageId or raises BotoCoreError/ClientError,
\* which is caught and turned into a result; `delivered` is the outcome of the call.
send_email_ses(delivered) ==
    IF delivered THEN [success |-> TRUE, message |-> "MessageId"]
    ELSE [success |-> FALSE, message |-> "error"]

\* ------------------------------------------------------ VerifyEmail.post
\* Variant: the expiry test skipped for a verified user.
OtpExpired_UnverifiedOnly(user, t) == ~user.is_verified /\ t > user.otp_expiration

\* if timezone.now() > user.otp_expiration
OtpExpired(user, t) == t > user.otp_expiration

\* Variant: the lockout starts one failure late.
TooManyAttempts_Late(user) == user.otp_attempts > MaxOtpAttempts

\* user.otp_attempts >= 3: the left operand of the lockout test; the right
\* one, with its read of the clock, is evaluated only when this holds.
TooManyAttempts(user) == user.otp_attempts >= MaxOtpAttempts

\* Variant: the window taken to be 600 / 60 seconds long.
InLockoutWindow_Minutes(user, t) ==
    (t - user.otp_attempts_timestamp) < (LockoutSeconds \div 60)

\* Variant: the comparison turned round.
InLockoutWindow_Reversed(user, t) ==
    (t - user.otp_attempts_timestamp) > LockoutSeconds

\* (timezone.now() - user.otp_attempts_timestamp).total_seconds() < 600
InLockoutWindow(user, t) == (t - user.otp_attempts_timestamp) < LockoutSeconds

\* Variant: no test of is_verified before the comparison.
VerifyShortCircuit_Never(user) == FALSE

\* if user.is_verified, after the two guards
VerifyShortCircuit(user) == user.is_verified

\* Variant: the attempt counter is not reset.
MarkVerified_KeepAttempts(user) == [user EXCEPT !.is_verified = TRUE]

\* The row saved when the submitted code matches.
MarkVerified(user) ==
    [user EXCEPT !.is_verified = TRUE,
                 !.otp_attempts = 0,
                 !.otp_attempts_timestamp = None]

\* Variant: the timestamp is set at every failure.
CountFailure_AlwaysStamp(user, t) ==
    [user EXCEPT !.otp_attempts = @ + 1,
                 !.otp_attempts_timestamp = t]

\* Variant: the count is tested for 0 after it was incremented.
CountFailure_NeverStamps(user, t) ==
    LET n == user.otp_attempts + 1 IN
    [user EXCEPT !.otp_attempts = n,
                 !.otp_attempts_timestamp = IF n = 0 THEN t ELSE @]

\* The row saved when the submitted code does not match; t is the clock
\* read when this is the first failure.
CountFailure(user, t) ==
    LET n == user.otp_attempts + 1 IN
    [user EXCEPT !.otp_attempts = n,
                 !.otp_attempts_timestamp = IF n = 1 THEN t ELSE @]

\* t1, t2, t3 are what the three calls of timezone.now() return, in program
\* order.  The result is the table after the handler, the response it returns
\* and which of the second and third calls were made (read2, read3).
VerifyEmailPost(db, email, otp, t1, t2, t3) ==
    IF email \notin DOMAIN db
    THEN [db |-> db, read2 |-> FALSE, read3 |-> FALSE,
          resp |-> Response(HTTP_400_BAD_REQUEST, {"status"},
                            "User with email: {email} not found")]
    ELSE LET user == db[email]
             guarded == TooManyAttempts(user)
         IN
         IF OtpExpired(user, t1)
         THEN [db |-> db, read2 |-> FALSE, read3 |-> FALSE,
               resp |-> Response(HTTP_400_BAD_REQUEST, {"status"}, "OTP has expired")]
         ELSE IF guarded /\ user.otp_attempts_timestamp = None
         \* datetime - None raises TypeError: the request dies with a server error
         THEN [db |-> db, read2 |-> TRUE, read3 |-> FALSE,
               resp |-> Response(HTTP_500_INTERNAL_SERVER_ERROR, {}, "TypeError")]
         ELSE IF guarded /\ InLockoutWindow(user, t2)
         THEN [db |-> db, read2 |-> TRUE, read3 |-> FALSE,
               resp |-> Response(HTTP_400_BAD_REQUEST, {"status"},
                                 "Too many failed attempts. Please try again later.")]
         ELSE IF VerifyShortCircuit(user)
         THEN [db |-> db, read2 |-> guarded, read3 |-> FALSE,
               resp |-> Response(HTTP_200_OK, {"status"},
                                 "Email already verified, please Login")]
         ELSE IF otp = user.otp
         THEN [db |-> [db EXCEPT ![email] = MarkVerified(user)],
               read2 |-> guarded, read3 |-> FALSE,
               resp |-> Response(HTTP_200_OK, {"status"},
                                 "Email verified, please proceed to Login page")]
         ELSE [db |-> [db EXCEPT ![email] = CountFailure(user, t3)],
               read2 |-> guarded, read3 |-> (user.otp_attempts = 0),
               resp |-> Response(HTTP_400_BAD_REQUEST, {"status"}, "Invalid OTP")]

\* ------------------------------------------------------ ResendOTP.post
\* Variant: no test of is_verified before a resend.
ResendShortCircuit_Never(user) == FALSE

\* if user.is_verified
ResendShortCircuit(user) == user.is_verified

\* Variant: the new code is not stored.
Reissue_KeepOtp(user, code, t1, t2) ==
    [user EXCEPT !.otp_created_at = t1,
                 !.otp_expiration = t2 + OtpLifetime]

\* Variant: a resend also clears the attempt counter and its timestamp.
Reissue_ResetAttempts(user, code, t1, t2) ==
    [user EXCEPT !.otp = code,
                 !.otp_created_at = t1,
                 !.otp_expiration = t2 + OtpLifetime,
                 !.otp_attempts = 0,
                 !.otp_attempts_timestamp = None]

\* The row saved by a resend: code is the value of random.randint, t1 and t2
\* the two reads of timezone.now().
Reissue(user, code, t1, t2) ==
    [user EXCEPT !.otp = code,
                 !.otp_created_at = t1,
                 !.otp_expiration = t2 + OtpLifetime]

\* Variant: a failed send is reported as registration reports it.
ResendResponse_NonFatal(email_response) ==
    IF ~email_response.success
    THEN Response(HTTP_200_OK, {"status", "email_error"}, email_response.message)
    ELSE Response(HTTP_200_OK, {"status"}, "New OTP sent, please check your email.")

\* The response that follows the SES call.
ResendResponse(email_response) ==
    IF ~email_response.success
    THEN Response(HTTP_500_INTERNAL_SERVER_ERROR, {"email_error", "message"},
                  "OTP not sent")
    ELSE Response(HTTP_200_OK, {"status"}, "New OTP sent, please check your email.")

\* Variant: the email is sent first and the row saved only when it went out.
ResendOTPPost_SendFirst(db, email, code, t1, t2, delivered) ==
    IF email \notin DOMAIN db
    THEN [db |-> db, sent |-> FALSE,
          resp |-> Response(HTTP_400_BAD_REQUEST, {"status"},
                            "User with email: {email} not found")]
    ELSE LET user == db[email] IN
         IF ResendShortCircuit(user)
         THEN [db |-> db, sent |-> FALSE,
               resp |-> Response(HTTP_200_OK, {"status"},
                                 "Email already verified, please Login")]
         ELSE [db |-> IF send_email_ses(delivered).success
                      THEN [db EXCEPT ![email] = Reissue(user, code, t1, t2)]
                      ELSE db,
               sent |-> TRUE,
               resp |-> ResendResponse(send_email_ses(delivered))]

\* delivered is the outcome of the SES call; sent tells whether
\* send_email_ses was called.
ResendOTPPost(db, email, code, t1, t2, delivered) ==
    IF email \notin DOMAIN db
    THEN [db |-> db, sent |-> FALSE,
          resp |-> Response(HTTP_400_BAD_REQUEST, {"status"},
                            "User with email: {email} not found")]
    ELSE LET user == db[email] IN
         IF ResendShortCircuit(user)
         THEN [db |-> db, sent |-> FALSE,
               resp |-> Response(HTTP_200_OK, {"status"},
                                 "Email already verified, please Login")]
         ELSE [db |-> [db EXCEPT ![email] = Reissue(user, code, t1, t2)],
               sent |-> TRUE,
               resp |-> ResendResponse(send_email_ses(delivered))]

\* ------------------------------------------------------ RegisterView.create
\* The row RegisterSerializer creates: unverified, with a fresh OTP.
NewUser(code, t) ==
    [is_verified |-> FALSE, otp |-> code, otp_created_at |-> t,
     otp_expiration |-> t + OtpLifetime, otp_attempts |-> 0,
     otp_attempts_timestamp |-> None]

\* The fields of the created user that the serializer returns.
SerializerData == {"email", "username"}

\* CreateAPIView.create: validate, then insert the row.  valid is the outcome
\* of the schema rules; the email is unique.
SuperCreate(db, email, code, t, valid) ==
    IF ~valid \/ email \in DOMAIN db
    THEN [db |-> db, raised |-> TRUE]
    ELSE [db |-> db @@ (email :> NewUser(code, t)), raised |-> FALSE]

\* Variant: a failed send is reported as resend reports it.
RegisterResponse_Fatal(email_response) ==
    IF ~email_response.success
    THEN Response(HTTP_500_INTERNAL_SERVER_ERROR, {"email_error", "message"},
                  "OTP not sent")
    ELSE Response(HTTP_200_OK, {"refresh", "access"} \cup SerializerData, "")

\* The response that follows the SES call: the token pair and the
\* serializer's data, with email_error added when the send failed.
RegisterResponse(email_response) ==
    IF ~email_response.success
    THEN Response(HTTP_200_OK,
                  {"refresh", "access"} \cup SerializerData \cup {"email_error"},
                  email_response.message)
    ELSE Response(HTTP_200_OK, {"refresh", "access"} \cup SerializerData, "")

RegisterCreate(db, email, code, t, valid, delivered) ==
    LET response == SuperCreate(db, email, code, t, valid) IN
    IF response.raised
    \* ValidationError leaves the handler: the framework answers 400
    THEN [db |-> response.db, sent |-> FALSE,
          resp |-> Response(HTTP_400_BAD_REQUEST, {"email"}, "ValidationError")]
    ELSE IF email \notin DOMAIN response.db
    THEN [db |-> response.db, sent |-> FALSE,
          resp |-> Response(HTTP_400_BAD_REQUEST, {"error"},
                            "User could not be created.")]
    ELSE [db |-> response.db, sent |-> TRUE,
          resp |-> RegisterResponse(send_email_ses(delivered))]

\* ---------------------------------------------------------------- state
Row(db, email) == IF email \in DOMAIN db THEN db[email] ELSE NoRow

Request(op, email, otp, t1, t2, t3, delivered, db, r, sent) ==
    [op |-> op, email |-> email, otp |-> otp, t1 |-> t1, t2 |-> t2, t3 |-> t3,
     delivered |-> delivered, found |-> email \in DOMAIN db, pre |-> Row(db, email),
     resp |-> r.resp, sent |-> sent]

NoIssue == [old |-> "", new |-> "", locked |-> FALSE, received |-> ""]

\* The lockout guard would fire on this row at time t.
Locked(user, t) ==
    /\ user.otp_attempts >= MaxOtpAttempts
    /\ user.otp_attempts_timestamp # None
    /\ t - user.otp_attempts_timestamp < LockoutSeconds

Init ==
    /\ users = << >>
    /\ now = 0
    /\ last = [op |-> "none", email |-> "", otp |-> "", t1 |-> 0, t2 |-> 0, t3 |-> 0,
               delivered |-> FALSE, found |-> FALSE, pre |-> NoRow,
               resp |-> Response(0, {}, ""), sent |-> FALSE]
    /\ issued = [e \in Emails |-> NoIssue]
    /\ fails = << >>
    /\ pending = << >>
    /\ tally = << >>
    /\ accounts = << >>
    /\ api = << >>

\* Time passes between two requests.
Tick_ ==
    /\ now + Tick <= MaxTime
    /\ now' = now + Tick
    /\ UNCHANGED <<users, last, issued>>

Register ==
    \E email \in Registrants, code \in OtpCodes, valid \in BOOLEAN,
       delivered \in BOOLEAN :
        LET r == RegisterCreate(users, email, code, now, valid, delivered) IN
        /\ users' = r.db
        /\ UNCHANGED now
        /\ last' = Request("register", email, code, now, now, now,
                           r.sent /\ delivered, users, r, r.sent)
        /\ issued' = IF email \notin DOMAIN users /\ email \in DOMAIN r.db
                     THEN [issued EXCEPT ![email] =
                              [NoIssue EXCEPT !.received =
                                  IF r.sent /\ delivered THEN code ELSE ""]]
                     ELSE issued

VerifyEmail ==
    \E email \in Emails, otp \in SubmittedOtps :
    \E t2 \in ClockReads(now) : \E t3 \in ClockReads(t2) :
        LET r == VerifyEmailPost(users, email, otp, now, t2, t3)
            \* a call that is not made takes no time
            u2 == IF r.read2 THEN t2 ELSE now
            u3 == IF r.read3 THEN t3 ELSE u2
        IN
        /\ Row(r.db, email).otp_attempts <= MaxAttempts
        /\ users' = r.db
        /\ now' = u3
        /\ last' = Request("verify", email, otp, now, u2, u3, FALSE, users, r, FALSE)
        /\ UNCHANGED issued

ResendOTP ==
    \E email \in Emails, code \in OtpCodes, delivered \in BOOLEAN :
    \E t2 \in ClockReads(now) :
        LET r == ResendOTPPost(users, email, code, now, t2, delivered)
            u2 == IF r.sent THEN t2 ELSE now
        IN
        /\ users' = r.db
        /\ now' = u2
        /\ last' = Request("resend", email, IF r.sent THEN code ELSE "", now, u2, u2,
                           r.sent /\ delivered, users, r, r.sent)
        /\ issued' = IF r.sent
                     THEN [issued EXCEPT ![email] =
                              [old |-> users[email].otp, new |-> code,
                               locked |-> Locked(users[email], now),
                               received |-> IF delivered THEN code ELSE @.received]]
                     ELSE issued

Next ==
    \/ Tick_ /\ UNCHANGED auxVars
    \/ Register /\ UNCHANGED auxVars
    \/ VerifyEmail /\ UNCHANGED auxVars
    \/ ResendOTP /\ UNCHANGED auxVars

Spec == Init /\ [][Next]_vars

\* ======================================================================
\* Properties.  They speak of the last request handled (last), of the row it
\* found (last.pre) and of the row as it is now (Cur).
\* ======================================================================
Cur == Row(users, last.email)
Pre == last.pre

VerifyOnRow == last.op = "verify" /\ last.found
ResendOnRow == last.op = "resend" /\ last.found

\* The request was made not later than otp_expiration.
Unexpired == last.t1 <= Pre.otp_expiration
\* The lockout guard fires on the row the request found.
LockoutFires ==
    /\ Pre.otp_attempts >= MaxOtpAttempts
    /\ Pre.otp_attempts_timestamp # None
    /\ last.t2 - Pre.otp_attempts_timestamp < LockoutSeconds
\* The lockout guard does not fire: fewer than 3 attempts, or 600 s elapsed.
LockoutClear ==
    \/ Pre.otp_attempts < MaxOtpAttempts
    \/ /\ Pre.otp_attempts_timestamp # None
       /\ last.t2 - Pre.otp_attempts_timestamp >= LockoutSeconds

Answered(status, msg) == last.resp.status = status /\ last.resp.msg = msg

\* C1: for an unverified user, a verify-email request carrying the stored OTP,
\* made not later than otp_expiration while the lockout guard does not fire,
\* sets is_verified, sets otp_attempts to 0, clears otp_attempts_timestamp and
\* answers HTTP 200.
C1_CorrectOtpVerifies ==
    (VerifyOnRow /\ ~Pre.is_verified /\ last.otp = Pre.otp /\ Unexpired /\ LockoutClear)
    => /\ Cur.is_verified
       /\ Cur.otp_attempts = 0
       /\ Cur.otp_attempts_timestamp = None
       /\ last.resp.status = HTTP_200_OK

\* C1 witness: a correct code accepted after three failures, once the lockout
\* window has elapsed; the counters it resets were set.
C1_Witness ==
    /\ VerifyOnRow /\ ~Pre.is_verified /\ last.otp = Pre.otp /\ Unexpired
    /\ Pre.otp_attempts >= MaxOtpAttempts
    /\ Pre.otp_attempts_timestamp # None
    /\ last.t2 - Pre.otp_attempts_timestamp >= LockoutSeconds
    /\ Cur.is_verified /\ Cur.otp_attempts = 0

\* C2: for every existing user, a verify-email request made later than
\* otp_expiration is answered HTTP 400 "OTP has expired" and leaves the row as
\* it was, whatever the code, the attempt count and the verification flag.
C2_ExpiredRejected ==
    (VerifyOnRow /\ ~Unexpired)
    => /\ Answered(HTTP_400_BAD_REQUEST, "OTP has expired")
       /\ Cur = Pre

\* C2 witness: the correct code, submitted after expiry by an unverified user
\* on whom the lockout guard would fire, is answered "OTP has expired".
C2_Witness ==
    /\ VerifyOnRow /\ ~Unexpired /\ last.otp = Pre.otp /\ ~Pre.is_verified
    /\ Pre.otp_attempts >= MaxOtpAttempts
    /\ Pre.otp_attempts_timestamp # None
    /\ last.t1 - Pre.otp_attempts_timestamp < LockoutSeconds
    /\ Answered(HTTP_400_BAD_REQUEST, "OTP has expired")

\* C3: with three or more failed attempts counted, a verify-email request made
\* while the OTP is unexpired and fewer than 600 s after otp_attempts_timestamp
\* is answered HTTP 400 with the lockout message, whatever its code, and leaves
\* the row as it was.
C3_LockedOutRejected ==
    (VerifyOnRow /\ Unexpired /\ LockoutFires)
    => /\ Answered(HTTP_400_BAD_REQUEST,
                   "Too many failed attempts. Please try again later.")
       /\ Cur = Pre
       /\ ~Cur.is_verified

\* C3 witness: the correct code rejected by the lockout, right after the third failure.
C3_Witness ==
    /\ VerifyOnRow /\ Unexpired /\ LockoutFires
    /\ Pre.otp_attempts = MaxOtpAttempts
    /\ last.otp = Pre.otp
    /\ last.resp.msg = "Too many failed attempts. Please try again later."

\* C4: every resend-otp on an unverified user and every successful
\* verification leaves the row with otp_attempts = 0 and
\* otp_attempts_timestamp empty.
C4_IssuanceResetsAttempts ==
    (\/ ResendOnRow /\ ~Pre.is_verified
     \/ VerifyOnRow /\ last.resp.msg = "Email verified, please proceed to Login page")
    => /\ Cur.otp_attempts = 0
       /\ Cur.otp_attempts_timestamp = None

\* C5: after every resend-otp on an unverified user the row has
\* otp_expiration = otp_created_at + 10 minutes.
C5_ExpirationIsCreatedPlusTen ==
    (ResendOnRow /\ ~Pre.is_verified)
    => Cur.otp_expiration = Cur.otp_created_at + OtpLifetime

\* C6: after a resend-otp that generated a code different from the one stored
\* before it, a verify-email request carrying the earlier code does not verify
\* the user, and when it passes both guards it is answered "Invalid OTP" and
\* counted as a failure; one carrying the new code that passes both guards
\* verifies the user.
C6_OldCodeInvalidated ==
    (VerifyOnRow /\ ~Pre.is_verified)
    => LET i == issued[last.email] IN
       (i.old # "" /\ i.new # i.old)
       => /\ last.otp = i.old
             => /\ ~Cur.is_verified
                /\ (Unexpired /\ LockoutClear)
                   => /\ Answered(HTTP_400_BAD_REQUEST, "Invalid OTP")
                      /\ Cur.otp_attempts = Pre.otp_attempts + 1
          /\ (last.otp = i.new /\ Unexpired /\ LockoutClear) => Cur.is_verified

\* C6 witness: the code stored before a resend that changed it is submitted
\* and answered "Invalid OTP".
C6_Witness ==
    /\ VerifyOnRow /\ ~Pre.is_verified
    /\ issued[last.email].old # ""
    /\ issued[last.email].new # issued[last.email].old
    /\ last.otp = issued[last.email].old
    /\ Answered(HTTP_400_BAD_REQUEST, "Invalid OTP")

\* C7: a verify-email or resend-otp request that finds the user verified
\* leaves every field of the row as it was; is_verified stays true.
C7_VerifiedRowFrozen ==
    ((VerifyOnRow \/ ResendOnRow) /\ Pre.is_verified)
    => /\ Cur = Pre
       /\ Cur.is_verified

\* C7 witness: a resend-otp for a verified user has been handled.
C7_Witness == ResendOnRow /\ Pre.is_verified /\ Cur = Pre

\* C8 as stated: every verify-email request for a verified user is answered
\* HTTP 200 "Email already verified, please Login", whatever the time.
C8_AlwaysShortCircuits ==
    (VerifyOnRow /\ Pre.is_verified)
    => Answered(HTTP_200_OK, "Email already verified, please Login")

\* C8 amended: a verify-email request for a verified user is answered
\* HTTP 200 "Email already verified, please Login" when it is made not later
\* than otp_expiration, and HTTP 400 "OTP has expired" when it is made later,
\* whatever code it carries.
C8_ShortCircuitsUntilExpiry ==
    (VerifyOnRow /\ Pre.is_verified)
    => IF Unexpired
       THEN Answered(HTTP_200_OK, "Email already verified, please Login")
       ELSE Answered(HTTP_400_BAD_REQUEST, "OTP has expired")

\* C8 witness: a verified user submits a wrong code, after the OTP was
\* issued and before it expires, and gets the success answer.
C8_Witness ==
    /\ VerifyOnRow /\ Pre.is_verified /\ Unexpired
    /\ last.otp # Pre.otp
    /\ last.t1 > Pre.otp_created_at
    /\ Answered(HTTP_200_OK, "Email already verified, please Login")

\* The registration created the row.
Registered == last.op = "register" /\ ~last.found /\ last.email \in DOMAIN users

\* C9: when registration creates the row, the response is HTTP 200 with a
\* refresh and an access token whether or not the OTP email was sent; the
\* email_error field is there exactly when the send failed, nothing else
\* differs, and the unverified row is stored.
C9_RegistrationTokens ==
    Registered
    => /\ last.resp.status = HTTP_200_OK
       /\ {"refresh", "access"} \subseteq last.resp.keys
       /\ ("email_error" \in last.resp.keys) <=> ~last.delivered
       /\ last.resp.keys \ {"email_error"} = {"refresh", "access"} \cup SerializerData
       /\ last.sent
       /\ Cur = NewUser(last.otp, last.t1)
       /\ ~Cur.is_verified

\* C9 witness: a registration whose email send failed.
C9_Witness ==
    /\ Registered /\ ~last.delivered
    /\ "email_error" \in last.resp.keys
    /\ last.resp.status = HTTP_200_OK

\* C10: resend-otp for an existing unverified user answers 200 exactly when
\* the send succeeds and 500 with email_error exactly when it fails; for an
\* unknown email it answers 400 and for a verified user 200, and in these two
\* cases no email is sent.
C10_ResendStatus ==
    (last.op = "resend")
    => /\ (last.found /\ ~Pre.is_verified)
          => /\ last.sent
             /\ (last.resp.status = HTTP_200_OK) <=> last.delivered
             /\ (/\ last.resp.status = HTTP_500_INTERNAL_SERVER_ERROR
                 /\ "email_error" \in last.resp.keys) <=> ~last.delivered
       /\ ~last.found
          => last.resp.status = HTTP_400_BAD_REQUEST /\ ~last.sent
       /\ (last.found /\ Pre.is_verified)
          => last.resp.status = HTTP_200_OK /\ ~last.sent

\* C10 witness: a resend for an unverified user whose send failed, answered 500.
C10_Witness ==
    /\ ResendOnRow /\ ~Pre.is_verified /\ ~last.delivered
    /\ last.resp.status = HTTP_500_INTERNAL_SERVER_ERROR

\* The request passed both guards and found the user unverified: its code is compared.
Compared == VerifyOnRow /\ ~Pre.is_verified /\ Unexpired /\ LockoutClear

\* C12: a verify-email request whose code is compared and does not match
\* adds exactly 1 to otp_attempts, sets otp_attempts_timestamp to the clock
\* when the new count is 1 and leaves it alone otherwise, leaves is_verified,
\* otp and both OTP times alone, and answers HTTP 400 "Invalid OTP".
C12_MismatchCounted ==
    (Compared /\ last.otp # Pre.otp)
    => /\ Cur = [Pre EXCEPT !.otp_attempts = @ + 1,
                            !.otp_attempts_timestamp =
                                IF Pre.otp_attempts = 0 THEN last.t3 ELSE @]
       /\ Answered(HTTP_400_BAD_REQUEST, "Invalid OTP")

\* C12 witness: a failure counted after three earlier ones, the lockout
\* window being over; the timestamp of the first failure is still there.
C12_Witness ==
    /\ Compared /\ last.otp # Pre.otp
    /\ Pre.otp_attempts = MaxOtpAttempts
    /\ Cur.otp_attempts = MaxOtpAttempts + 1
    /\ Cur.otp_attempts_timestamp = Pre.otp_attempts_timestamp
    /\ last.t3 > Pre.otp_attempts_timestamp

\* C13: a verify-email request made after otp_expiration, or on which the
\* lockout guard fires, or for an unknown email, is rejected with HTTP 400 and
\* leaves the whole table as it was.
C13_RejectionWritesNothing ==
    [][(/\ last'.op = "verify"
        /\ \/ ~last'.found
           \/ last'.t1 > last'.pre.otp_expiration
           \/ Locked(last'.pre, last'.t2))
       => /\ users' = users
          /\ last'.resp.status = HTTP_400_BAD_REQUEST
          /\ last'.resp.msg \in {"User with email: {email} not found",
                                 "OTP has expired",
                                 "Too many failed attempts. Please try again later."}]_vars

\* C13 witness: a wrong code rejected by the lockout guard; the counter and
\* the timestamp are those of the third failure.
C13_Witness ==
    /\ VerifyOnRow /\ Unexpired /\ LockoutFires
    /\ last.otp # Pre.otp
    /\ Cur.otp_attempts = Pre.otp_attempts
    /\ Cur.otp_attempts_timestamp = Pre.otp_attempts_timestamp
    /\ ~Cur.is_verified

\* C14: a resend-otp on an unverified user changes otp, otp_created_at and
\* otp_expiration only, so it does not lift a lockout: a verify-email request
\* made after it while the guard still fires is answered with the lockout
\* message even when it carries the code just issued.
C14_ResendKeepsLockout ==
    /\ (ResendOnRow /\ ~Pre.is_verified)
       => /\ Cur.otp_attempts = Pre.otp_attempts
          /\ Cur.otp_attempts_timestamp = Pre.otp_attempts_timestamp
          /\ Cur.is_verified = Pre.is_verified
          /\ Locked(Pre, last.t2) => Locked(Cur, last.t2)
    /\ (VerifyOnRow /\ issued[last.email].locked /\ Unexpired
           /\ last.t2 - Pre.otp_attempts_timestamp < LockoutSeconds)
       => /\ Answered(HTTP_400_BAD_REQUEST,
                      "Too many failed attempts. Please try again later.")
          /\ ~Cur.is_verified

\* C14 witness: a resend found the row locked out, and the code it issued is
\* then rejected with the lockout message.
C14_Witness ==
    /\ VerifyOnRow /\ issued[last.email].locked /\ Unexpired
    /\ last.otp = issued[last.email].new
    /\ last.otp = Pre.otp
    /\ last.resp.msg = "Too many failed attempts. Please try again later."

\* The row of email after these three steps taken from the table as it is: wait
\* until the lockout window is over if the guard would fire now, resend-otp
\* (the email goes out), verify-email with the code the resend generated.
AfterRecovery(email, code) ==
    LET user == users[email]
        t == IF Locked(user, now)
             THEN user.otp_attempts_timestamp + LockoutSeconds
             ELSE now
        resent == ResendOTPPost(users, email, code, t, t, TRUE)
        verified == VerifyEmailPost(resent.db, email, code, t, t, t)
    IN verified.db[email]

\* C15: the lockout ends: with 3 or more attempts counted, a verify-email
\* request carrying the stored OTP, made 600 s or more after
\* otp_attempts_timestamp and not later than otp_expiration, verifies the
\* user; and from every state with an unverified user, waiting for the end of
\* the window, a resend-otp and a verify-email with the new code verify the user.
C15_LockoutEnds ==
    /\ (/\ VerifyOnRow /\ ~Pre.is_verified /\ Unexpired
        /\ last.otp = Pre.otp
        /\ Pre.otp_attempts >= MaxOtpAttempts
        /\ Pre.otp_attempts_timestamp # None
        /\ last.t2 - Pre.otp_attempts_timestamp >= LockoutSeconds)
       => Cur.is_verified
    /\ \A email \in DOMAIN users :
           ~users[email].is_verified
           => \A code \in OtpCodes : AfterRecovery(email, code).is_verified

\* C15 witness: a resend found the row locked out; once the window is over
\* the code it issued is accepted.
C15_Witness ==
    /\ VerifyOnRow /\ ~Pre.is_verified
    /\ issued[last.email].locked
    /\ last.otp = issued[last.email].new
    /\ Pre.otp_attempts >= MaxOtpAttempts
    /\ last.t2 - Pre.otp_attempts_timestamp >= LockoutSeconds
    /\ Cur.is_verified

\* The resend found an unverified user and its email send failed.
FailedResend ==
    ResendOnRow /\ last.resp.status = HTTP_500_INTERNAL_SERVER_ERROR

\* The row holds what the resend generated.
ResendSaved ==
    /\ Cur.otp = last.otp
    /\ Cur.otp_created_at = last.t1
    /\ Cur.otp_expiration = last.t2 + OtpLifetime

\* C18 as stated: after a resend-otp answered 500 the row holds the new
\* otp, otp_created_at and otp_expiration, and the code of the last email the
\* user received no longer matches the stored one.
C18_FailedResendUnmatchesReceived ==
    FailedResend
    => /\ ResendSaved
       /\ issued[last.email].received # ""
          => issued[last.email].received # Cur.otp

\* C18 amended: after a resend-otp answered 500 the row holds the new otp,
\* otp_created_at and otp_expiration although no email went out, and the code
\* of the last email the user received no longer matches the stored one unless
\* the resend generated that same code again.
C18_FailedResendSaved ==
    FailedResend
    => /\ ResendSaved
       /\ ~last.delivered
       /\ issued[last.email].received \notin {"", last.otp}
          => issued[last.email].received # Cur.otp

\* C18 witness: the user had received the stored code; a resend whose send
\* failed replaced it by another one.
C18_Witness ==
    /\ FailedResend
    /\ issued[last.email].received = Pre.otp
    /\ Cur.otp # Pre.otp
    /\ Cur.otp = last.otp

\* ======================================================================
\* SpecGuess: the same requests, with the times of the latest answers
\* "Invalid OTP" kept in fails (one more than the attempt limit of them).
\* ======================================================================
Latest(times) == IF Len(times) > MaxOtpAttempts + 1 THEN Tail(times) ELSE times

GuessVerifyEmail ==
    /\ VerifyEmail
    /\ fails' = IF last'.resp.msg = "Invalid OTP"
                THEN Latest(Append(fails, now'))
                ELSE fails
    /\ UNCHANGED <<pending, tally, accounts, api>>

GuessNext ==
    \/ Tick_ /\ UNCHANGED auxVars
    \/ Register /\ UNCHANGED auxVars
    \/ GuessVerifyEmail
    \/ ResendOTP /\ UNCHANGED auxVars

SpecGuess == Init /\ [][GuessNext]_vars

\* C17: in any span of 600 seconds at most 3 verify-email requests are
\* answered "Invalid OTP": the fourth of any four successive such answers
\* comes 600 s or more after the first of them.
C17_ThreeGuessesPerWindow ==
    Len(fails) > MaxOtpAttempts
    => fails[Len(fails)] - fails[Len(fails) - MaxOtpAttempts] >= LockoutSeconds

\* ======================================================================
\* SpecRace: requests for one registered user handled at the same time.
\* A handler reads the row (CustomUser.objects.get), decides on its copy and,
\* on the paths that call user.save(), later writes every column of its copy
\* back; requests of other handlers may come between the two.
\* ======================================================================
RaceEmail == "a@x.com"
NoTally == [saved |-> 0, invalid |-> 0, verified |-> FALSE]

\* The saves still to come, as a bag: handlers differ by what they save only.
Started(row, msg) == pending (+) SetToBag({[row |-> row, msg |-> msg]})

RaceInit ==
    /\ \E code \in OtpCodes : users = (RaceEmail :> NewUser(code, 0))
    /\ now = 0
    /\ pending = EmptyBag
    /\ tally = NoTally
    /\ last = [op |-> "none", email |-> "", otp |-> "", t1 |-> 0, t2 |-> 0, t3 |-> 0,
               delivered |-> FALSE, found |-> FALSE, pre |-> NoRow,
               resp |-> Response(0, {}, ""), sent |-> FALSE]
    /\ issued = [e \in Emails |-> NoIssue]
    /\ fails = << >>
    /\ accounts = << >>
    /\ api = << >>

raceRest == <<last, issued, fails, accounts, api>>

RaceTick ==
    /\ now + Tick <= MaxTime
    /\ now' = now + Tick
    /\ UNCHANGED <<users, pending, tally>>
    /\ UNCHANGED raceRest

\* VerifyEmail.post up to its user.save(): lines 162-196 or 162-205.  On the
\* paths without a save the request ends here.  The clock is read at once;
\* time passes between the read of the row and the save.
BeginVerify ==
    \E otp \in OtpCodes :
        LET r == VerifyEmailPost(users, RaceEmail, otp, now, now, now) IN
        /\ BagCardinality(pending) < MaxInFlight
        /\ r.db # users => tally.saved + BagCardinality(pending) < MaxAnswers
        /\ pending' = IF r.db # users
                      THEN Started(r.db[RaceEmail], r.resp.msg)
                      ELSE pending
        /\ UNCHANGED <<users, now, tally>>
        /\ UNCHANGED raceRest

\* ResendOTP.post up to its user.save(): lines 216-232.
BeginResend ==
    \E code \in OtpCodes :
        LET r == ResendOTPPost(users, RaceEmail, code, now, now, TRUE) IN
        /\ BagCardinality(pending) < MaxInFlight
        /\ r.sent => tally.saved + BagCardinality(pending) < MaxAnswers
        /\ pending' = IF r.sent
                      THEN Started(r.db[RaceEmail], r.resp.msg)
                      ELSE pending
        /\ UNCHANGED <<users, now, tally>>
        /\ UNCHANGED raceRest

\* user.save() and the response: every column of the handler's copy is written.
Save ==
    \E h \in BagToSet(pending) :
        /\ users' = [users EXCEPT ![RaceEmail] = h.row]
        /\ tally' = [saved |-> tally.saved + 1,
                     invalid |-> IF h.msg = "Invalid OTP"
                                 THEN tally.invalid + 1 ELSE tally.invalid,
                     verified |-> \/ tally.verified
                                  \/ h.msg = "Email verified, please proceed to Login page"]
        /\ pending' = pending (-) SetToBag({h})
        /\ UNCHANGED now
        /\ UNCHANGED raceRest

RaceNext == RaceTick \/ BeginVerify \/ BeginResend \/ Save

SpecRace == RaceInit /\ [][RaceNext]_vars

\* C16: in every state reached from a freshly registered user by verify-email
\* and resend-otp requests, interleaved in any way, otp_attempts is not
\* negative and otp_attempts >= 1 implies that otp_attempts_timestamp is set;
\* so no verify-email request can die in the lockout guard.
C16_AttemptsHaveTimestamp ==
    \A email \in DOMAIN users :
        /\ users[email].otp_attempts >= 0
        /\ users[email].otp_attempts >= 1
           => users[email].otp_attempts_timestamp # None
        /\ \A otp \in SubmittedOtps :
               VerifyEmailPost(users, email, otp, now, now, now).resp.msg # "TypeError"

\* C16 witness: two failures were answered but one is counted (two handlers
\* read the same row), a third handler's save is still to come, and the row
\* has its timestamp.
C16_Witness ==
    /\ RaceEmail \in DOMAIN users
    /\ users[RaceEmail].otp_attempts >= 1
    /\ tally.invalid > users[RaceEmail].otp_attempts
    /\ users[RaceEmail].otp_attempts_timestamp # None
    /\ pending # EmptyBag

\* C19: once a request has been answered "Email verified", the stored
\* is_verified is true and stays true, whatever the other requests save.
C19_VerificationNotUndone ==
    tally.verified => users[RaceEmail].is_verified

\* C20: when only verify-email requests answered "Invalid OTP" have been
\* saved (nothing has reset the count) and no request is in flight, the
\* stored otp_attempts is the number of "Invalid OTP" answers given.
C20_FailuresAllCounted ==
    (pending = EmptyBag /\ tally.saved = tally.invalid)
    => users[RaceEmail].otp_attempts = tally.invalid

\* ======================================================================
\* SpecProfile: the /users/ endpoints of UserViewSet.
\* accounts is the CustomUser table seen through these endpoints; api is the
\* last request with the table as it was before it.
\* ======================================================================
AnonymousUser == "AnonymousUser"
STANDARD == "standard"
ADMIN == "admin"
Ids == {"u1", "u2", "u3"}
Usernames == {"ann", "bob"}
Extensions == {".png"}
SAFE_METHODS == {"GET", "HEAD", "OPTIONS"}
http_method_names == {"get", "patch", "head", "options", "delete"}

NoPicture == ""
NoFile == ""
Deleted == [exists |-> FALSE, role |-> STANDARD, username |-> "ann",
            profile_picture |-> NoPicture]

\* request.method.lower()
Lower(method) ==
    CASE method = "GET" -> "get"
      [] method = "HEAD" -> "head"
      [] method = "OPTIONS" -> "options"
      [] method = "PATCH" -> "patch"
      [] method = "DELETE" -> "delete"
      [] method = "POST" -> "post"
      [] method = "PUT" -> "put"

\* The action the router binds to a method: POST on the collection, the other
\* methods on /users/{id}.
ActionOf(method) ==
    CASE method = "POST" -> "create"
      [] method = "PATCH" -> "partial_update"
      [] method = "PUT" -> "update"
      [] method = "DELETE" -> "destroy"
      [] OTHER -> "retrieve"

IsOwnerOrReadOnly(method, obj, user) ==
    IF method \in SAFE_METHODS THEN TRUE ELSE obj = user

IsOwnerOrAdmin_AnyRole(db, obj, user) ==
    IF obj = user THEN "allow"
    ELSE IF user = AnonymousUser THEN "AttributeError"
    ELSE "allow"

\* request.user.role does not exist on the anonymous user: the comparison
\* raises instead of answering.
IsOwnerOrAdmin(db, obj, user) ==
    IF obj = user THEN "allow"
    ELSE IF user = AnonymousUser THEN "AttributeError"
    ELSE IF db[user].role = ADMIN THEN "allow"
    ELSE "deny"

IsAuthenticated(user) == user # AnonymousUser

\* The permission classes in force for an action; creating raises.
get_permissions(action) ==
    IF action = "create" THEN {"PermissionDenied"}
    ELSE IF action = "destroy" THEN {"IsOwnerOrAdmin"}
    ELSE {"IsOwnerOrReadOnly", "IsAuthenticated"}

\* check_permissions: the view-level has_permission of each class in force.
CheckPermissions(action, user) ==
    IF "PermissionDenied" \in get_permissions(action) THEN "403 Forbidden"
    ELSE IF "IsAuthenticated" \in get_permissions(action) /\ ~IsAuthenticated(user)
    THEN "401 Unauthorized"
    ELSE "ok"

\* check_object_permissions: has_object_permission of each class in force.
CheckObjectPermissions(db, action, method, obj, user) ==
    IF "IsOwnerOrAdmin" \in get_permissions(action)
    THEN CASE IsOwnerOrAdmin(db, obj, user) = "allow" -> "ok"
           [] IsOwnerOrAdmin(db, obj, user) = "deny" -> "403 Forbidden"
           [] OTHER -> "500 Internal Server Error"
    ELSE IF IsOwnerOrReadOnly(method, obj, user) THEN "ok"
    ELSE IF IsAuthenticated(user) THEN "403 Forbidden"
    ELSE "401 Unauthorized"

\* default_storage.url of users/{id}/profile_picture{ext}
PictureUrl(id, ext) == <<"users", id, "profile_picture", ext>>

handle_profile_picture_upload(db, id, ext) ==
    [db EXCEPT ![id].profile_picture = PictureUrl(id, ext)]

\* perform_update with partial = True: the fields present in the data.
perform_update(db, id, data) ==
    [db EXCEPT ![id].username = IF data.username = "" THEN @ ELSE data.username]

\* UserViewSet.update after get_object has passed; stored tells whether
\* default_storage.save succeeds.
update(db, id, data, stored) ==
    IF ~data.valid THEN [db |-> db, resp |-> "400 Bad Request"]
    ELSE IF data.file = NoFile
    THEN [db |-> perform_update(db, id, data), resp |-> "200 OK"]
    ELSE IF ~stored
    THEN [db |-> perform_update(db, id, data), resp |-> "500 Internal Server Error"]
    ELSE [db |-> handle_profile_picture_upload(perform_update(db, id, data),
                                               id, data.file),
          resp |-> "200 OK"]

\* ModelViewSet.destroy after get_object has passed.
destroy(db, id) == [db |-> [db EXCEPT ![id] = Deleted], resp |-> "204 No Content"]

\* One request through UserViewSet: permissions, method table, object
\* lookup, object permissions, handler.
UserViewSetRequest(db, method, user, id, data, stored) ==
    LET action == ActionOf(method)
        same(resp) == [db |-> db, resp |-> resp] IN
    IF CheckPermissions(action, user) # "ok"
    THEN same(CheckPermissions(action, user))
    ELSE IF Lower(method) \notin http_method_names
    THEN same("405 Method Not Allowed")
    ELSE IF ~db[id].exists
    THEN same("404 Not Found")
    ELSE IF CheckObjectPermissions(db, action, method, id, user) # "ok"
    THEN same(CheckObjectPermissions(db, action, method, id, user))
    ELSE CASE action = "partial_update" -> update(db, id, data, stored)
           [] action = "destroy" -> destroy(db, id)
           [] OTHER -> same("200 OK")

\* The users that can present a valid token, and the anonymous requester.
Requesters(db) == {id \in Ids : db[id].exists} \cup {AnonymousUser}

PatchData ==
    [username : Usernames \cup {""}, file : Extensions \cup {NoFile},
     valid : BOOLEAN]
NoData == [username |-> "", file |-> NoFile, valid |-> TRUE]

NoRequest == [method |-> "none", user |-> AnonymousUser, id |-> "u1",
              resp |-> "", before |-> << >>]

ProfileInit ==
    /\ accounts = [id \in Ids |->
                       [exists |-> TRUE,
                        role |-> IF id = "u3" THEN ADMIN ELSE STANDARD,
                        username |-> "ann",
                        profile_picture |-> NoPicture]]
    /\ api = NoRequest
    /\ users = [e \in {} |-> NoRow]
    /\ now = 0
    /\ last = [op |-> "none", email |-> "", otp |-> "", t1 |-> 0, t2 |-> 0, t3 |-> 0,
               delivered |-> FALSE, found |-> FALSE, pre |-> NoRow,
               resp |-> Response(0, {}, ""), sent |-> FALSE]
    /\ issued = [e \in Emails |-> NoIssue]
    /\ fails = << >>
    /\ pending = << >>
    /\ tally = << >>

profileRest == <<users, now, last, issued, fails, pending, tally>>

Served(method, user, id, data, stored) ==
    LET r == UserViewSetRequest(accounts, method, user, id, data, stored) IN
    /\ accounts' = r.db
    /\ api' = [method |-> method, user |-> user, id |-> id, resp |-> r.resp,
               before |-> accounts]
    /\ UNCHANGED profileRest

Retrieve ==
    \E user \in Requesters(accounts), id \in Ids, method \in SAFE_METHODS :
        Served(method, user, id, NoData, TRUE)

PartialUpdate ==
    \E user \in Requesters(accounts), id \in Ids, data \in PatchData,
       stored \in BOOLEAN :
        Served("PATCH", user, id, data, stored \/ data.file = NoFile)

Put ==
    \E user \in Requesters(accounts), id \in Ids, username \in Usernames :
        Served("PUT", user, id, [NoData EXCEPT !.username = username], TRUE)

Destroy ==
    \E user \in Requesters(accounts), id \in Ids :
        Served("DELETE", user, id, NoData, TRUE)

Create ==
    \E user \in Requesters(accounts), id \in Ids, username \in Usernames :
        Served("POST", user, id, [NoData EXCEPT !.username = username], TRUE)

ProfileNext == Retrieve \/ PartialUpdate \/ Put \/ Destroy \/ Create

SpecProfile == ProfileInit /\ [][ProfileNext]_vars

Authenticated(user) == user # AnonymousUser
Changed(id) == accounts[id] # api.before[id]

====
